---- MODULE Spec2Model ----
(***************************************************************************)
(* Model of crop-recommendation-frontend/script.js: the form submit        *)
(* handler, getRecommendation, validateInput and saveToHistory, run by a   *)
(* single-threaded event loop in which every `await` is a point where      *)
(* other events (a second click, a response of another request) can run.   *)
(*                                                                         *)
(* JavaScript values are tagged records: the tag `t` is the JS type and    *)
(* the payload field differs per type, so two values of different types    *)
(* are comparable and unequal.  parseFloat yields integers here; the       *)
(* fractional inputs of the form (6.5) are outside the model.              *)
(***************************************************************************)
EXTENDS Integers, Sequences, FiniteSets, Bags, TLC

\* ------------------------------------------------------------------------
\* JavaScript values
\* ------------------------------------------------------------------------
Undef == [t |-> "undefined"]
Null == [t |-> "null"]
NaN == [t |-> "nan"]
Num(n) == [t |-> "num", n |-> n]
Str(s) == [t |-> "str", s |-> s]
Arr(items) == [t |-> "arr", items |-> items]
\* An object: its own keys in insertion order (Object.keys) and their values.
Obj(keys, v) == [t |-> "obj", keys |-> keys, v |-> v]
EmptyObj == Obj(<<>>, <<>>)

Range(seq) == {seq[i] : i \in DOMAIN seq}

\* `v.k` for a value v that is neither null nor undefined: an own property of
\* an object, undefined on anything else (primitives and arrays have none of
\* the keys the program reads).
Get(v, k) == IF v.t = "obj" /\ k \in Range(v.keys) THEN v.v[k] ELSE Undef

\* Reading a property of null or undefined throws a TypeError.
Nullish(v) == v.t \in {"null", "undefined"}

\* ToBoolean
Truthy(v) ==
    CASE v.t \in {"undefined", "null", "nan"} -> FALSE
      [] v.t = "num" -> v.n # 0
      [] v.t = "str" -> v.s # ""
      [] v.t = "bool" -> v.b
      [] OTHER -> TRUE

\* a || b
OrElse(a, b) == IF Truthy(a) THEN a ELSE b

\* typeof v === 'object' (true of null, arrays and objects)
TypeofObject(v) == v.t \in {"null", "arr", "obj"}

\* ------------------------------------------------------------------------
\* Response texts and JSON.parse
\* ------------------------------------------------------------------------
\* Inner texts: what an envelope carries in its `body` string.
B_Wheat == "{\"recommendation\":\"Wheat\",\"explanation\":\"Cool season\",\"details\":{\"optimal_soil_type\":\"Loam\",\"ph_range\":\"6-7\",\"extra_field\":\"x\"}}"
B_Garbage == "Bad Gateway"
B_Null == "null"
B_Id == "{\"insertId\":9}"

T_Empty == ""
T_Garbage == "<html>502</html>"
T_Null == "null"
T_Scalar == "5"
T_Direct == "{\"recommendation\":\"Rice\",\"growing_tips\":[\"Tip A\"],\"id\":7}"
T_Message == "{\"message\":\"Internal server error\"}"
T_Env == "{\"statusCode\":200,\"body\":\"{\\\"recommendation\\\":\\\"Wheat\\\",\\\"explanation\\\":\\\"Cool season\\\",\\\"details\\\":{\\\"optimal_soil_type\\\":\\\"Loam\\\",\\\"ph_range\\\":\\\"6-7\\\",\\\"extra_field\\\":\\\"x\\\"}}\"}"
T_EnvGarbage == "{\"statusCode\":502,\"body\":\"Bad Gateway\"}"
T_EnvNull == "{\"statusCode\":200,\"body\":\"null\"}"
T_EnvId == "{\"statusCode\":200,\"body\":\"{\\\"insertId\\\":9}\"}"
T_NullDetails == "{\"recommendation\":\"Maize\",\"details\":null}"
T_EmptyDetails == "{\"recommendation\":\"Millet\",\"details\":{}}"
T_Aliases == "{\"recommendation\":\"Barley\",\"details\":{\"soil\":\"Sandy\",\"soil_type\":\"\",\"optimal_soil\":\"Clay\",\"rainfall\":0,\"rain\":\"900\",\"Humidity\":\"60\",\"temp\":null,\"notes\":\"\",\"season\":\"Rabi\"}}"
T_CamelTips == "{\"recommendation\":\"Oats\",\"growing_tips\":[],\"growingTips\":[\"Tip B\"]}"
T_EnvEnv == "{\"statusCode\":200,\"body\":\"{\\\"statusCode\\\":200,\\\"body\\\":\\\"{\\\\\\\"insertId\\\\\\\":9}\\\"}\"}"

V_Details == Obj(<<"optimal_soil_type", "ph_range", "extra_field">>,
                 [optimal_soil_type |-> Str("Loam"), ph_range |-> Str("6-7"),
                  extra_field |-> Str("x")])
V_Wheat == Obj(<<"recommendation", "explanation", "details">>,
               [recommendation |-> Str("Wheat"), explanation |-> Str("Cool season"),
                details |-> V_Details])
V_Direct == Obj(<<"recommendation", "growing_tips", "id">>,
                [recommendation |-> Str("Rice"),
                 growing_tips |-> Arr(<<Str("Tip A")>>), id |-> Num(7)])
V_Message == Obj(<<"message">>, [message |-> Str("Internal server error")])
V_Id == Obj(<<"insertId">>, [insertId |-> Num(9)])
V_NullDetails == Obj(<<"recommendation", "details">>,
                     [recommendation |-> Str("Maize"), details |-> Null])
V_EmptyDetails == Obj(<<"recommendation", "details">>,
                      [recommendation |-> Str("Millet"), details |-> EmptyObj])
V_AliasDetails ==
    Obj(<<"soil", "soil_type", "optimal_soil", "rainfall", "rain", "Humidity", "temp",
          "notes", "season">>,
        [soil |-> Str("Sandy"), soil_type |-> Str(""), optimal_soil |-> Str("Clay"),
         rainfall |-> Num(0), rain |-> Str("900"), Humidity |-> Str("60"),
         temp |-> Null, notes |-> Str(""), season |-> Str("Rabi")])
V_Aliases == Obj(<<"recommendation", "details">>,
                 [recommendation |-> Str("Barley"), details |-> V_AliasDetails])
V_CamelTips == Obj(<<"recommendation", "growing_tips", "growingTips">>,
                   [recommendation |-> Str("Oats"), growing_tips |-> Arr(<<>>),
                    growingTips |-> Arr(<<Str("Tip B")>>)])
Envelope(status, body) ==
    Obj(<<"statusCode", "body">>, [statusCode |-> Num(status), body |-> Str(body)])

\* The JSON texts of the model and the value each denotes.  Every other text
\* is not JSON.
JsonTexts ==
    << <<B_Wheat, V_Wheat>>, <<B_Null, Null>>, <<B_Id, V_Id>>,
       <<T_Scalar, Num(5)>>, <<T_Direct, V_Direct>>, <<T_Message, V_Message>>,
       <<T_NullDetails, V_NullDetails>>, <<T_EmptyDetails, V_EmptyDetails>>,
       <<T_Aliases, V_Aliases>>, <<T_CamelTips, V_CamelTips>>,
       <<T_Env, Envelope(200, B_Wheat)>>,
       <<T_EnvGarbage, Envelope(502, B_Garbage)>>,
       <<T_EnvNull, Envelope(200, B_Null)>>,
       <<T_EnvId, Envelope(200, B_Id)>>,
       <<T_EnvEnv, Envelope(200, T_EnvId)>> >>

\* The result of an expression that may throw.
Threw(msg) == [threw |-> TRUE, msg |-> msg]
Returned(val) == [threw |-> FALSE, val |-> val]

\* JSON.parse(text): the value the text denotes, or a SyntaxError.
JSONparse(text) ==
    IF \E i \in DOMAIN JsonTexts : JsonTexts[i][1] = text
    THEN Returned(JsonTexts[CHOOSE i \in DOMAIN JsonTexts : JsonTexts[i][1] = text][2])
    ELSE Threw("SyntaxError")

\* try { parsed = text ? JSON.parse(text) : {} } catch (e) { parsed = {__raw: text} }
ParseOrRaw(text) ==
    IF text = "" THEN EmptyObj
    ELSE IF JSONparse(text).threw THEN Obj(<<"__raw">>, [__raw |-> Str(text)])
    ELSE JSONparse(text).val

\* parsed && typeof parsed === 'object' && typeof parsed.body === 'string'
LooksLikeEnvelope(parsed) ==
    /\ Truthy(parsed)
    /\ TypeofObject(parsed)
    /\ Get(parsed, "body").t = "str"

\* getRecommendation without the try around the parse of `body`.
UnwrapRecommendationUnguarded(text) ==
    LET parsed == ParseOrRaw(text) IN
    IF LooksLikeEnvelope(parsed) THEN JSONparse(Get(parsed, "body").s)
    ELSE Returned(parsed)

\* getRecommendation that returns what it parsed, envelope or not.
UnwrapRecommendationKeepsEnvelope(text) == Returned(ParseOrRaw(text))

\* getRecommendation from `const text = await response.text()` to its return:
\* what the function hands to its caller for a response text.
UnwrapRecommendation(text) ==
    LET parsed == ParseOrRaw(text) IN
    IF LooksLikeEnvelope(parsed)
    THEN LET inner == JSONparse(Get(parsed, "body").s) IN
         IF inner.threw THEN Returned(parsed) ELSE Returned(inner.val)
    ELSE Returned(parsed)

\* ------------------------------------------------------------------------
\* Validation
\* ------------------------------------------------------------------------
VALIDATION_RULES ==
    [ph |-> [min |-> 0, max |-> 14],
     n |-> [min |-> 0, max |-> 1000],
     p |-> [min |-> 0, max |-> 1000],
     k |-> [min |-> 0, max |-> 1000],
     rain |-> [min |-> 0, max |-> 10000],
     temp |-> [min |-> -20, max |-> 50],
     humidity |-> [min |-> 0, max |-> 100]]

\* The inputs of type "number" of the form, in document order.
NumberInputs == <<"ph", "n", "p", "k", "rain", "temp", "humidity">>
Fields == Range(NumberInputs)

\* The numbers an input's text can denote in the model.
Numerals ==
    UNION {{VALIDATION_RULES[f].min - 1, VALIDATION_RULES[f].min,
            VALIDATION_RULES[f].max, VALIDATION_RULES[f].max + 1} : f \in Fields}

\* parseFloat(s): the number s denotes, NaN for the empty string and for
\* every text that does not start with a number.
ParseFloat(s) ==
    IF \E m \in Numerals : ToString(m) = s
    THEN Num(CHOOSE m \in Numerals : ToString(m) = s)
    ELSE NaN

\* a < b on numbers: every comparison with NaN is false.
Less(a, b) == a.t = "num" /\ b.t = "num" /\ a.n < b.n

RangeMessage(min, max) ==
    "Value must be between " \o ToString(min) \o " and " \o ToString(max)

\* validateInput without the upper bound.
validateInputLowerOnly(name, text, rules) ==
    LET value == ParseFloat(text) IN
    IF name \in DOMAIN rules /\ Less(value, Num(rules[name].min))
    THEN [valid |-> FALSE, message |-> RangeMessage(rules[name].min, rules[name].max)]
    ELSE [valid |-> TRUE, message |-> ""]

\* validateInput(input, rules) for an input of the given name and text:
\* the value it returns and the custom validity message it leaves on the input.
validateInput(name, text, rules) ==
    LET value == ParseFloat(text) IN
    IF name \in DOMAIN rules
       /\ (Less(value, Num(rules[name].min)) \/ Less(Num(rules[name].max), value))
    THEN [valid |-> FALSE, message |-> RangeMessage(rules[name].min, rules[name].max)]
    ELSE [valid |-> TRUE, message |-> ""]

\* The forEach over the number inputs in the submit handler: isValid.
AllValid(form) ==
    \A f \in Fields : validateInput(f, form[f], VALIDATION_RULES).valid

\* A forEach that gives up at the first input found invalid: the inputs
\* after it in document order are not checked and carry no message.
ValidityOfFailFast(form) ==
    [f \in Fields |->
        IF \E i, j \in DOMAIN NumberInputs :
               /\ i < j
               /\ NumberInputs[j] = f
               /\ ~validateInput(NumberInputs[i], form[NumberInputs[i]], VALIDATION_RULES).valid
        THEN ""
        ELSE validateInput(f, form[f], VALIDATION_RULES).message]

\* The custom validity of every number input after that forEach.
ValidityOf(form) ==
    [f \in Fields |-> validateInput(f, form[f], VALIDATION_RULES).message]

\* const data = {soil: ..., ph: parseFloat(form.ph.value), ...}
PrepareData(form) ==
    [f \in Fields |-> ParseFloat(form[f])] @@ [soil |-> Str(form.soil)]

\* Form contents the user submits.  Low and High put every number input at
\* an end of its range; the others leave one or two inputs empty or beyond it.
FormAt(end) ==
    [f \in Fields |-> ToString(VALIDATION_RULES[f][end])] @@ [soil |-> "Clay Loam"]
Beyond(f, end) ==
    ToString(VALIDATION_RULES[f][end] + (IF end = "max" THEN 1 ELSE -1))
Low == FormAt("min")
High == FormAt("max")
Forms ==
    {Low,
     [High EXCEPT !.ph = ""],
     [High EXCEPT !.temp = Beyond("temp", "min")],
     [Low EXCEPT !.ph = Beyond("ph", "max"), !.humidity = Beyond("humidity", "max")]}

\* ------------------------------------------------------------------------
\* Rendering of a response
\* ------------------------------------------------------------------------
\* Object.keys(v) of an object (details that are arrays or unparsed strings,
\* whose keys are indices, are outside the model).
Keys(v) == IF v.t = "obj" THEN v.keys ELSE <<>>

\* The text a value becomes inside a template string.
ToText(v) ==
    CASE v.t = "str" -> v.s
      [] v.t = "num" -> ToString(v.n)
      [] v.t = "undefined" -> "undefined"
      [] v.t = "null" -> "null"
      [] OTHER -> "[object Object]"

\* details.a1 || details.a2 || ... || fallback, for the aliases in order.
RECURSIVE FirstTruthy(_, _, _)
FirstTruthy(obj, aliases, fallback) ==
    IF aliases = <<>> THEN fallback
    ELSE IF Truthy(Get(obj, Head(aliases))) THEN Get(obj, Head(aliases))
    ELSE FirstTruthy(obj, Tail(aliases), fallback)

\* The `details` value the panel is rendered from: json.details, parsed when
\* it is a JSON string, with the fallbacks under json.body.
NormalizeDetails(json) ==
    LET given == Get(json, "details")
        d0 == OrElse(given, Null)
        d1 == IF d0.t = "str" /\ ~JSONparse(d0.s).threw THEN JSONparse(d0.s).val ELSE d0
        body == Get(json, "body")
        b == IF body.t = "str" THEN JSONparse(body.s) ELSE Returned(body)
    IN  IF ~Truthy(d1) /\ given = Undef /\ Truthy(body)
        THEN IF b.threw \/ Nullish(b.val) THEN d1
             ELSE FirstTruthy(b.val, <<"details", "result", "data">>, Null)
        ELSE d1

SoilAliases ==
    <<"optimal_soil_type", "optimalSoilType", "optimal_soil", "soil_type", "soilType",
      "soil", "soilDetails", "Soil">>
PHAliases ==
    <<"optimal_soil_ph", "optimal_pH_range", "optimalPHRange", "optimal_pH", "ph_range",
      "phRange", "pH", "ph", "pH_range", "pHRange">>
RainAliases ==
    <<"optimal_rainfall_mm", "rainfall_requirement", "rainfallRequirement",
      "optimal_rainfall", "rainfall", "rain", "Rainfall", "rainfall_mm">>
TempAliases ==
    <<"optimal_temperature_c", "temperature_range", "temperatureRange",
      "optimal_temperature", "temp_range", "temperature", "temp", "Temperature",
      "optimal_temp">>
HumidityAliases ==
    <<"optimal_humidity", "humidity_range", "humidityRange", "humidity", "Humidity",
      "optimal_humidity_range">>
NutrientAliases == <<"nutrient_requirements", "nutrientRequirements", "nutrients">>

coveredKeys ==
    {"nutrient_requirements", "nutrientRequirements", "nutrients", "optimal_soil_type",
     "optimalSoilType", "optimal_soil", "soil_type", "soilType", "soil",
     "optimal_soil_ph", "optimal_pH_range", "optimalPHRange", "optimal_pH", "ph_range",
     "phRange", "pH", "ph", "optimal_rainfall_mm", "rainfall_requirement",
     "rainfallRequirement", "rainfall", "rain", "optimal_temperature_c",
     "temperature_range", "temperatureRange", "temperature", "temp_range", "temp",
     "optimal_humidity", "humidity_range", "humidityRange", "humidity"}

Dash == Str("-")    \* the em dash placeholder

\* Object.keys(details).filter(k => !coveredKeys.includes(k))
uncoveredKeys(details) == SelectSeq(Keys(details), LAMBDA k : k \notin coveredKeys)

\* The nutrient map: the first truthy alias, parsed when it is a JSON string.
Nutrients(details) ==
    LET n0 == FirstTruthy(details, NutrientAliases, EmptyObj) IN
    IF n0.t = "str" /\ ~JSONparse(n0.s).threw THEN JSONparse(n0.s).val ELSE n0

\* The entries of a list of keys of an object, as <<key, value>> pairs.
Entries(obj, keys) == [i \in DOMAIN keys |-> <<keys[i], Get(obj, keys[i])>>]

PanelAbsent == [t |-> "absent"]
PanelEmpty == [t |-> "empty"]

\* detailsEl.innerHTML for truthy details: the five fixed fields, the nutrient
\* list and the additional entries (those of the uncovered keys whose value
\* is not null, undefined or '').
DetailsView(details) ==
    [t |-> "view",
     soilType |-> FirstTruthy(details, SoilAliases, Dash),
     pHRange |-> FirstTruthy(details, PHAliases, Dash),
     rainReq |-> FirstTruthy(details, RainAliases, Dash),
     tempRange |-> FirstTruthy(details, TempAliases, Dash),
     humidityRange |-> FirstTruthy(details, HumidityAliases, Dash),
     nutrients |-> LET n == Nutrients(details) IN
                   IF Nullish(n) THEN <<>> ELSE Entries(n, Keys(n)),
     additional |-> SelectSeq(Entries(details, uncoveredKeys(details)),
                              LAMBDA e : e[2] \notin {Null, Undef, Str("")})]

\* A details block that builds the view whether or not there are details.
RenderDetailsAlwaysView(json) == DetailsView(NormalizeDetails(json))

\* The details panel after the handler's details block.
RenderDetails(json) ==
    LET details == NormalizeDetails(json) IN
    IF Truthy(details) THEN DetailsView(details) ELSE PanelEmpty

fallbackTips(json) ==
    << Str("Optimal planting season for " \o ToText(Get(json, "recommendation"))
           \o " in your area"),
       Str("Recommended irrigation schedule based on your rainfall"),
       Str("Specific fertilizer recommendations for your soil type"),
       Str("Pest management suggestions for your region") >>

\* finalTips: the items appended to the emptied #growingTips list.
finalTips(json) ==
    LET apiTips == IF Get(json, "growing_tips").t = "arr" THEN Get(json, "growing_tips").items
                   ELSE IF Get(json, "growingTips").t = "arr" THEN Get(json, "growingTips").items
                   ELSE <<>>
    IN  IF Len(apiTips) # 0 THEN apiTips ELSE fallbackTips(json)

\* ------------------------------------------------------------------------
\* The network
\* ------------------------------------------------------------------------
\* The largest number of submit handlers suspended at `await` at once.
MaxInFlight == 2

Pending == [kind |-> "pending"]
\* fetch rejects (no connection, CORS, DNS): a TypeError "Failed to fetch".
Rejected == [kind |-> "reject"]
Http(status, text) == [kind |-> "http", status |-> status, text |-> text]
\* response.ok
Ok(resp) == resp.status \in 200..299

\* What the recommendation endpoint can answer: every shape of response text.
RecOutcomes ==
    {Rejected, Http(500, T_Message)}
    \cup {Http(200, text) : text \in {T_Empty, T_Garbage, T_Null, T_Scalar, T_Direct,
                                      T_Env, T_EnvGarbage, T_EnvNull, T_EnvEnv,
                                      T_NullDetails, T_EmptyDetails, T_Aliases,
                                      T_CamelTips}}

\* What the history endpoint can answer.
HistOutcomes ==
    {Rejected, Http(200, T_Direct), Http(200, T_EnvId), Http(200, T_Empty),
     Http(200, T_Null), Http(500, T_Message), Http(502, T_EnvGarbage),
     Http(500, T_Env), Http(403, T_Garbage), Http(500, T_Null),
     Http(500, T_Empty), Http(500, T_EnvEnv)}

\* The answers drawn where handlers overlap: a failed request, a response the
\* handler cannot render, and one it can.
FewRecOutcomes == {Rejected, Http(200, T_Null), Http(200, T_Direct)}
FewHistOutcomes == {Rejected, Http(200, T_EnvId), Http(502, T_EnvGarbage)}

\* ------------------------------------------------------------------------
\* State
\* ------------------------------------------------------------------------
VARIABLES
    validity,       \* the custom validity message of every number input
    loading,        \* #loading style.display
    resultDisplay,  \* #result style.display
    apiResponse,    \* #apiResponse: the raw JSON shown for troubleshooting
    cropName,       \* #cropName innerText
    explanation,    \* #explanation innerText
    detailsPanel,   \* #detailsPanel innerHTML
    growingTips,    \* the items of #growingTips
    lastResult,     \* the module variable lastResult
    submits,        \* submit handlers suspended at `await getRecommendation(data)`
    save,           \* the saveToHistory call suspended at `await fetch(historyApiUrl)`
    btnDisabled,    \* the Save button's disabled property
    ev              \* what the last step of a handler did: its alert, its requests

\* What a rendered recommendation consists of.
rendered == <<resultDisplay, cropName, explanation, detailsPanel, growingTips>>
dom == <<apiResponse, rendered>>
vars == <<validity, loading, dom, lastResult, submits, save, btnDisabled, ev>>

NoAlert == [text |-> "", detail |-> Undef]
Alert(text, detail) == [text |-> text, detail |-> detail]
\* An Error with the given message.
Error(message) == [t |-> "error", message |-> message]
\* new Error(`History API error: ${res.status} ${JSON.stringify(bodyObj)}`)
HistoryApiError(status, bodyObj) ==
    [t |-> "error", message |-> "History API error", status |-> status, body |-> bodyObj]

\* The record of a step: the handler that ran, the alert it raised and the
\* number of requests it sent to the recommendation and history endpoints.
Event(op, alert, recRequests, histRequests) ==
    [op |-> op, alert |-> alert,
     recRequests |-> recRequests, histRequests |-> histRequests]
\* The event of a step of the network, which is no handler's.
Arrival(op) == Event(op, NoAlert, 0, 0)

\* No saveToHistory call is suspended.
SaveIdle == [st |-> "idle", payload |-> Undef, resp |-> Pending]

Init ==
    /\ validity = [f \in Fields |-> ""]
    /\ loading = "none"
    /\ resultDisplay = "none"
    /\ apiResponse = Undef
    /\ cropName = Str("")
    /\ explanation = Str("")
    /\ detailsPanel = PanelAbsent
    /\ growingTips = <<>>
    /\ lastResult = Null
    /\ submits = EmptyBag
    /\ save = SaveIdle
    /\ btnDisabled = FALSE
    /\ ev = Event("load", NoAlert, 0, 0)

\* ------------------------------------------------------------------------
\* The submit handler
\* ------------------------------------------------------------------------
\* lastResult = {timestamp, input, result, name, location}: the timestamp and
\* the optional name and location inputs are left out of the model.
LastResult(data, json) == [t |-> "obj", input |-> data, result |-> json]

\* A handler suspended at the await: its `data` and the settlement of its
\* fetch.  `before` is a history field: what was rendered when the submit
\* event came, which the code does not keep.
Handler(data, resp, before) == [data |-> data, resp |-> resp, before |-> before]

\* element.innerText = v
InnerText(v) == Str(ToText(v))

CheckInputsAlert == Alert("Please check the input values and try again.", Undef)
\* alert(`Error: ${err.message}. Please try again later.`)
ErrorAlert(message) == Alert("Error: . Please try again later.", Error(message))

\* The submit event of #cropForm (the Ctrl/Cmd+Enter shortcut clicks the
\* submit button, which raises the same event), from its start to the await
\* inside getRecommendation.
Submit(form) ==
    /\ validity' = ValidityOf(form)
    /\ IF ~AllValid(form)
       THEN /\ ev' = Event("submit", CheckInputsAlert, 0, 0)
            /\ UNCHANGED <<loading, dom, lastResult, submits, save, btnDisabled>>
       ELSE /\ BagCardinality(submits) < MaxInFlight
            /\ loading' = "block"
            /\ resultDisplay' = "none"
            /\ submits' = submits (+) SetToBag({Handler(PrepareData(form), Pending, rendered)})
            /\ ev' = Event("submit", NoAlert, 1, 0)
            /\ UNCHANGED <<apiResponse, cropName, explanation, detailsPanel,
                           growingTips, lastResult, save, btnDisabled>>

\* What `await getRecommendation(data)` gives the handler for a settled fetch.
Awaited(resp) ==
    IF resp.kind # "http" THEN Threw("Failed to fetch")
    ELSE UnwrapRecommendation(resp.text)

\* The catch block of the submit handler.
SubmitCatch(message) ==
    /\ loading' = "none"
    /\ ev' = Event("submitResume", ErrorAlert(message), 0, 0)

\* A rendering that writes the default texts before it reads the response.
RenderResultDefaultsFirst(json) ==
    /\ apiResponse' = json
    /\ IF Nullish(json)
       THEN /\ cropName' = Str("No specific crop recommended")
            /\ explanation' = Str("No explanation available")
            /\ SubmitCatch("Cannot read properties of null")
            /\ UNCHANGED <<resultDisplay, detailsPanel, growingTips>>
       ELSE /\ cropName' = InnerText(OrElse(Get(json, "recommendation"),
                                          Str("No specific crop recommended")))
            /\ explanation' = InnerText(OrElse(Get(json, "explanation"),
                                             Str("No explanation available")))
            /\ detailsPanel' = RenderDetails(json)
            /\ growingTips' = finalTips(json)
            /\ loading' = "none"
            /\ resultDisplay' = "block"
            /\ ev' = Event("submitResume", NoAlert, 0, 0)

\* The body of the try block after lastResult is set, for a response json.
RenderResult(json) ==
    /\ apiResponse' = json
    /\ IF Nullish(json)
       THEN \* json.recommendation throws a TypeError
            /\ SubmitCatch("Cannot read properties of null")
            /\ UNCHANGED <<resultDisplay, cropName, explanation, detailsPanel, growingTips>>
       ELSE /\ cropName' = InnerText(OrElse(Get(json, "recommendation"),
                                          Str("No specific crop recommended")))
            /\ explanation' = InnerText(OrElse(Get(json, "explanation"),
                                             Str("No explanation available")))
            /\ detailsPanel' = RenderDetails(json)
            /\ growingTips' = finalTips(json)
            /\ loading' = "none"
            /\ resultDisplay' = "block"
            /\ ev' = Event("submitResume", NoAlert, 0, 0)

\* The submit handler with a catch block that sends the request again.
SubmitContinueRetrying(h, resp) ==
    /\ IF Awaited(resp).threw
       THEN /\ ev' = Event("submitResume", NoAlert, 1, 0)
            /\ UNCHANGED <<submits, loading, dom, lastResult>>
       ELSE /\ submits' = submits (-) SetToBag({h})
            /\ lastResult' = LastResult(h.data, Awaited(resp).val)
            /\ RenderResult(Awaited(resp).val)
    /\ UNCHANGED <<validity, save, btnDisabled>>

\* The submit handler with `data` kept in a variable shared by all submits
\* instead of a const of the handler: a handler that resumes while another
\* is waiting finds the other's data there.
SubmitContinueSharedData(h, resp) ==
    LET others == BagToSet(submits (-) SetToBag({h}))
        data == IF others = {} THEN h.data ELSE (CHOOSE o \in others : TRUE).data
    IN  /\ submits' = submits (-) SetToBag({h})
        /\ IF Awaited(resp).threw
           THEN /\ SubmitCatch(Awaited(resp).msg)
                /\ UNCHANGED <<dom, lastResult>>
           ELSE /\ lastResult' = LastResult(data, Awaited(resp).val)
                /\ RenderResult(Awaited(resp).val)
        /\ UNCHANGED <<validity, save, btnDisabled>>

\* The submit handler h from the settlement of its fetch to its end.
SubmitContinue(h, resp) ==
    /\ submits' = submits (-) SetToBag({h})
    /\ IF Awaited(resp).threw
       THEN /\ SubmitCatch(Awaited(resp).msg)
            /\ UNCHANGED <<dom, lastResult>>
       ELSE /\ lastResult' = LastResult(h.data, Awaited(resp).val)
            /\ RenderResult(Awaited(resp).val)
    /\ UNCHANGED <<validity, save, btnDisabled>>

\* The recommendation endpoint answers the request of a suspended handler (or
\* the request fails) and the handler runs to its end.  The continuation of
\* an await is a microtask: it runs before the event loop takes another
\* event, and the handler touches no state between the two awaits of
\* getRecommendation, so settlement and continuation are one step.
RecSettles(h, outcome) ==
    /\ BagIn(h, submits)
    /\ h.resp = Pending
    /\ SubmitContinue(h, outcome)

\* The same in two steps, the settlement of the fetch and the continuation of
\* the handler, for the properties that speak of the time between them.
RecResponds(h, outcome) ==
    /\ BagIn(h, submits)
    /\ h.resp = Pending
    /\ submits' = (submits (-) SetToBag({h})) (+) SetToBag({Handler(h.data, outcome, h.before)})
    /\ ev' = Arrival("recResponse")
    /\ UNCHANGED <<validity, loading, dom, lastResult, save, btnDisabled>>

SubmitResume(h) ==
    /\ BagIn(h, submits)
    /\ h.resp # Pending
    /\ SubmitContinue(h, h.resp)

\* ------------------------------------------------------------------------
\* saveToHistory
\* ------------------------------------------------------------------------
NoResultAlert ==
    Alert("No recommendation to save yet. Please get a recommendation first.", Undef)
\* alert('Failed to save history: ' + err.message)
SaveFailedAlert(err) == Alert("Failed to save history: ", err)
\* alert('Saved to history' + (savedId ? ` (id: ${savedId})` : ''))
SavedAlert(savedId) == Alert("Saved to history", savedId)

\* The payload sent to the history endpoint (timestamp, name and location are
\* left out, as in LastResult).
Payload(last) ==
    [input |-> last.input,
     recommendation |-> Get(last.result, "recommendation"),
     explanation |-> Get(last.result, "explanation"),
     details |-> OrElse(Get(last.result, "details"), EmptyObj),
     growing_tips |-> OrElse(OrElse(Get(last.result, "growing_tips"),
                                    Get(last.result, "growingTips")), Arr(<<>>))]

\* saveToHistory that keeps what it parsed, wrapper or not.
UnwrapHistoryKeepsEnvelope(text) == ParseOrRaw(text)

\* bodyObj: the history response with the proxy wrapper taken off.
UnwrapHistory(text) ==
    LET parsed == ParseOrRaw(text) IN
    IF LooksLikeEnvelope(parsed)
    THEN LET inner == JSONparse(Get(parsed, "body").s) IN
         IF inner.threw THEN Obj(<<"message">>, [message |-> Get(parsed, "body")])
         ELSE inner.val
    ELSE parsed

\* A click of the Save button (a disabled button raises no click):
\* saveToHistory from its start to `await fetch(historyApiUrl, ...)`.
SaveClick ==
    /\ ~btnDisabled
    /\ IF ~Truthy(lastResult)
       THEN /\ ev' = Event("save", NoResultAlert, 0, 0)
            /\ UNCHANGED <<save, btnDisabled>>
       ELSE IF Nullish(lastResult.result)
       THEN \* lastResult.result.recommendation throws inside the try block
            /\ ev' = Event("save", SaveFailedAlert(Error("Cannot read properties of null")),
                           0, 0)
            /\ btnDisabled' = FALSE
            /\ UNCHANGED save
       ELSE /\ save' = [st |-> "fetch", payload |-> Payload(lastResult), resp |-> Pending]
            /\ btnDisabled' = TRUE
            /\ ev' = Event("save", NoAlert, 0, 1)
    /\ UNCHANGED <<validity, loading, dom, lastResult, submits>>

\* saveToHistory without the test of res.ok.
SaveOutcomeIgnoringStatus(resp) ==
    IF resp.kind # "http" THEN SaveFailedAlert(Error("Failed to fetch"))
    ELSE LET bodyObj == UnwrapHistory(resp.text) IN
         IF Nullish(bodyObj)
         THEN SaveFailedAlert(Error("Cannot read properties of null"))
         ELSE SavedAlert(FirstTruthy(bodyObj, <<"id", "insertId", "message">>, Null))

\* The alert saveToHistory ends with for a settled fetch.
SaveOutcome(resp) ==
    IF resp.kind # "http" THEN SaveFailedAlert(Error("Failed to fetch"))
    ELSE LET bodyObj == UnwrapHistory(resp.text) IN
         IF ~Ok(resp) THEN SaveFailedAlert(HistoryApiError(resp.status, bodyObj))
         ELSE IF Nullish(bodyObj)
         THEN SaveFailedAlert(Error("Cannot read properties of null"))
         ELSE SavedAlert(FirstTruthy(bodyObj, <<"id", "insertId", "message">>, Null))

\* saveToHistory with the button enabled at the end of the try block instead
\* of in a finally.
SaveContinueWithoutFinally(resp) ==
    /\ ev' = Event("saveResume", SaveOutcome(resp), 0, 0)
    /\ btnDisabled' = (SaveOutcome(resp).text # "Saved to history")
    /\ save' = SaveIdle
    /\ UNCHANGED <<validity, loading, dom, lastResult, submits>>

\* saveToHistory from the settlement of its fetch to the end of its finally.
SaveContinue(resp) ==
    /\ ev' = Event("saveResume", SaveOutcome(resp), 0, 0)
    /\ btnDisabled' = FALSE
    /\ save' = SaveIdle
    /\ UNCHANGED <<validity, loading, dom, lastResult, submits>>

\* The history endpoint answers (or the request fails) and saveToHistory runs
\* to its end.
HistSettles(outcome) ==
    /\ save.st = "fetch"
    /\ save.resp = Pending
    /\ SaveContinue(outcome)

\* The same in two steps.
HistResponds(outcome) ==
    /\ save.st = "fetch"
    /\ save.resp = Pending
    /\ save' = [save EXCEPT !.resp = outcome]
    /\ ev' = Arrival("histResponse")
    /\ UNCHANGED <<validity, loading, dom, lastResult, submits, btnDisabled>>

SaveResume ==
    /\ save.st = "fetch"
    /\ save.resp # Pending
    /\ SaveContinue(save.resp)

\* ------------------------------------------------------------------------
\* Specification
\* ------------------------------------------------------------------------
\* Handlers overlap: a click can come while earlier requests are in flight.
Next ==
    \/ \E form \in Forms : Submit(form)
    \/ \E h \in BagToSet(submits), outcome \in FewRecOutcomes : RecSettles(h, outcome)
    \/ SaveClick
    \/ \E outcome \in FewHistOutcomes : HistSettles(outcome)

Spec == Init /\ [][Next]_vars

\* One user action at a time, as the user who waits for each answer sees the
\* program, with every shape of response.
Quiet == submits = EmptyBag /\ save = SaveIdle
SerialNext ==
    \/ \E form \in Forms : Quiet /\ Submit(form)
    \/ \E h \in BagToSet(submits), outcome \in RecOutcomes : RecSettles(h, outcome)
    \/ Quiet /\ SaveClick
    \/ \E outcome \in HistOutcomes : HistSettles(outcome)

SerialSpec == Init /\ [][SerialNext]_vars

\* The same program with the settlement of a fetch and the continuation of
\* its handler as separate steps.  The event loop runs the continuation of
\* every settled await, which is the weak fairness of the two Resume steps;
\* nothing obliges the user to click or the network to answer.
LiveForms == {Low, [Low EXCEPT !.ph = Beyond("ph", "max"), !.humidity = Beyond("humidity", "max")]}
LiveNext ==
    \/ \E form \in LiveForms : Submit(form)
    \/ \E h \in BagToSet(submits), outcome \in FewRecOutcomes : RecResponds(h, outcome)
    \/ \E h \in BagToSet(submits) : SubmitResume(h)
    \/ SaveClick
    \/ \E outcome \in FewHistOutcomes : HistResponds(outcome)
    \/ SaveResume

\* The steps that take a settled handler out of the awaiting ones: under
\* LiveNext these are the SubmitResume and SaveResume steps and no others.
SubmitFinishes ==
    \E h \in BagToSet(submits) : h.resp # Pending /\ submits' = submits (-) SetToBag({h})
SaveFinishes ==
    save.st = "fetch" /\ save.resp # Pending /\ save' = SaveIdle

LiveSpec ==
    /\ Init
    /\ [][LiveNext]_vars
    /\ WF_submits(SubmitFinishes)
    /\ WF_save(SaveFinishes)

\* ------------------------------------------------------------------------
\* Properties
\* ------------------------------------------------------------------------
\* Some number input of the form holds a number outside the closed range of
\* its rule.
OutOfRange(form) ==
    \E f \in Fields : \E m \in Numerals :
        /\ ToString(m) = form[f]
        /\ (m < VALIDATION_RULES[f].min \/ m > VALIDATION_RULES[f].max)

InFlight == BagCardinality(submits)

\* C1: a submit with a number input outside its range sends no request to the
\* recommendation endpoint and leaves lastResult, the loading indicator and
\* the result panel as they were.
C1_InvalidSubmitSendsNothing ==
    [][\A form \in Forms :
          (Submit(form) /\ OutOfRange(form)) =>
              /\ ev'.recRequests = 0
              /\ submits' = submits
              /\ UNCHANGED <<lastResult, loading, resultDisplay>>]_vars

\* An out-of-range submit has just been turned away while a result was shown.
C1_Witness ==
    /\ ev.op = "submit"
    /\ ev.alert = CheckInputsAlert
    /\ validity.ph = RangeMessage(0, 14)
    /\ lastResult # Null
    /\ resultDisplay = "block"

\* No submit has rendered a recommendation yet: the details panel, which every
\* rendering creates, does not exist.
NoneSucceeded == detailsPanel = PanelAbsent

\* C2: saveToHistory, called when no submit has succeeded so far, raises the
\* no-result alert and sends nothing to the history endpoint.
C2_SaveWithoutSuccess ==
    [][(SaveClick /\ NoneSucceeded) =>
          /\ ev'.alert = NoResultAlert
          /\ ev'.histRequests = 0
          /\ save' = save]_vars

\* C3: a submit that passes validation sends exactly one request, and the
\* continuation of its handler sends none, whatever the answer was.
C3_ExactlyOneRequest ==
    [][/\ \A form \in Forms :
             (Submit(form) /\ AllValid(form)) =>
                 ev'.recRequests = 1 /\ InFlight' = InFlight + 1
       /\ \A h \in BagToSet(submits), outcome \in FewRecOutcomes :
             RecSettles(h, outcome) =>
                 ev'.recRequests = 0 /\ InFlight' = InFlight - 1]_vars

\* A handler has just ended in its catch block and nothing is in flight.
C3_Witness ==
    /\ ev.op = "submitResume"
    /\ ev.alert = ErrorAlert("Failed to fetch")
    /\ InFlight = 0

\* The handler that continued in this step ended in its catch block.
Failed == ev'.op = "submitResume" /\ ev'.alert # NoAlert
ErrorText == "Error: . Please try again later."

C5_LastResultOnlyOnSuccess ==
    [][/\ \A form \in Forms : Submit(form) => lastResult' = lastResult
       /\ \A h \in BagToSet(submits), outcome \in FewRecOutcomes :
             RecSettles(h, outcome) =>
                 IF Failed THEN lastResult' = lastResult
                 ELSE lastResult' = LastResult(h.data, Awaited(outcome).val)]_vars

\* C6: at most one request of a submit or a save is in flight.
C6_OneRequestInFlight ==
    InFlight + (IF save.st = "fetch" THEN 1 ELSE 0) <= 1

\* C7: whenever nothing is in flight the loading indicator is hidden and the
\* Save button enabled; the handler of every settled request runs on, which
\* for a submit hides the loading indicator and for a save enables the button
\* and ends the call.
SubmitSettled == \E h \in BagToSet(submits) : h.resp # Pending
SaveSettled == save.st = "fetch" /\ save.resp # Pending
C7_BackToInteractive ==
    /\ [](Quiet => (loading = "none" /\ ~btnDisabled))
    /\ SubmitSettled ~> (ev.op = "submitResume" /\ loading = "none")
    /\ SaveSettled ~> (ev.op = "saveResume" /\ save = SaveIdle /\ ~btnDisabled)

\* Both a submit and a save have failed and nothing is left in flight.
C7_Witness ==
    /\ ev.op = "saveResume"
    /\ ev.alert = SaveFailedAlert(Error("Failed to fetch"))
    /\ Quiet
    /\ lastResult # Null
    /\ loading = "none"

\* C8: for every response text the recommendation endpoint answers with,
\* getRecommendation returns a value: the handler stores it in lastResult and
\* never reports a SyntaxError.
C8_UnwrapNeverThrows ==
    [][\A h \in BagToSet(submits), outcome \in RecOutcomes :
          (RecSettles(h, outcome) /\ outcome.kind = "http") =>
              /\ ~Awaited(outcome).threw
              /\ lastResult' # Null
              /\ lastResult'.input = h.data
              /\ apiResponse' = lastResult'.result
              /\ ev'.alert # ErrorAlert("SyntaxError")]_vars

\* An envelope whose body is not JSON has been answered and kept as it is.
C8_Witness ==
    /\ ev.op = "submitResume"
    /\ lastResult # Null
    /\ lastResult.result = Envelope(502, B_Garbage)

\* The text is JSON for an object whose `body` is a string holding JSON.
IsEnvelopeText(text) ==
    /\ ~JSONparse(text).threw
    /\ JSONparse(text).val.t = "obj"
    /\ Get(JSONparse(text).val, "body").t = "str"
    /\ ~JSONparse(Get(JSONparse(text).val, "body").s).threw
InnerOf(text) == JSONparse(Get(JSONparse(text).val, "body").s).val

C10_HistoryErrorReported ==
    [][\A outcome \in HistOutcomes :
          (HistSettles(outcome) /\ outcome.kind = "http" /\ ~(outcome.status \in 200..299)) =>
              /\ ev'.alert.text = "Failed to save history: "
              /\ ev'.alert.detail.message = "History API error"
              /\ ev'.alert.detail.status = outcome.status
              /\ ev'.alert.detail.body = UnwrapHistory(outcome.text)
              /\ IsEnvelopeText(outcome.text) =>
                    ev'.alert.detail.body = InnerOf(outcome.text)
              /\ btnDisabled /\ ~btnDisabled']_vars

\* A 500 answer carrying an envelope has been reported with the inner value.
C10_Witness ==
    /\ ev.op = "saveResume"
    /\ ev.alert = SaveFailedAlert(HistoryApiError(500, V_Wheat))
    /\ ~btnDisabled

\* The text is JSON for an object whose `body` is a string that is not JSON.
IsBrokenEnvelopeText(text) ==
    /\ ~JSONparse(text).threw
    /\ JSONparse(text).val.t = "obj"
    /\ Get(JSONparse(text).val, "body").t = "str"
    /\ JSONparse(Get(JSONparse(text).val, "body").s).threw

\* The body an error of the history endpoint is reported with in this step.
ReportedBody == ev'.alert.detail.body

\* C11 as claimed: for every response text saveToHistory unwraps the value
\* getRecommendation returns for the same text (seen in the body the
\* History API error carries).
C11_SameUnwrapping ==
    [][\A outcome \in HistOutcomes :
          (HistSettles(outcome) /\ outcome.kind = "http" /\ ~Ok(outcome)) =>
              ReportedBody = UnwrapRecommendation(outcome.text).val]_vars

\* C11 as amended: the two agree for every text but an envelope whose `body`
\* is not JSON, where getRecommendation returns the envelope and
\* saveToHistory takes {message: body}.
C11_SameUnwrappingButBrokenBody ==
    [][\A outcome \in HistOutcomes :
          (HistSettles(outcome) /\ outcome.kind = "http" /\ ~Ok(outcome)) =>
              IF IsBrokenEnvelopeText(outcome.text)
              THEN /\ UnwrapRecommendation(outcome.text).val = JSONparse(outcome.text).val
                   /\ ReportedBody =
                        Obj(<<"message">>,
                            [message |-> Get(JSONparse(outcome.text).val, "body")])
              ELSE ReportedBody = UnwrapRecommendation(outcome.text).val]_vars

\* An envelope inside an envelope has been unwrapped once by saveToHistory.
C11_Witness ==
    /\ ev.op = "saveResume"
    /\ ev.alert = SaveFailedAlert(HistoryApiError(500, Envelope(200, B_Id)))

\* The number the text of input f denotes, if any, lies outside (inside) the
\* closed range of the rule of f.
FieldOutside(form, f) ==
    \E m \in Numerals :
        /\ ToString(m) = form[f]
        /\ (m < VALIDATION_RULES[f].min \/ m > VALIDATION_RULES[f].max)
FieldInside(form, f) ==
    \E m \in Numerals :
        /\ ToString(m) = form[f]
        /\ m >= VALIDATION_RULES[f].min /\ m <= VALIDATION_RULES[f].max

\* C12: a submit checks every number input: each one out of its range gets
\* the message 'Value must be between min and max' of its own rule and each
\* one in range has its message cleared, wherever it stands in the form and
\* whatever message it carried before.
C12_EveryInputChecked ==
    [][\A form \in Forms :
          Submit(form) =>
              \A f \in Fields :
                  /\ FieldOutside(form, f) =>
                        validity'[f] = "Value must be between "
                                          \o ToString(VALIDATION_RULES[f].min) \o " and "
                                          \o ToString(VALIDATION_RULES[f].max)
                  /\ FieldInside(form, f) => validity'[f] = ""]_vars

\* A submit with two inputs out of range has left a message on both, the
\* first and the last of the form, and none on the others.
C12_Witness ==
    /\ ev.op = "submit"
    /\ validity.ph = "Value must be between 0 and 14"
    /\ validity.humidity = "Value must be between 0 and 100"
    /\ \A f \in Fields \ {"ph", "humidity"} : validity[f] = ""

\* The response has no details: `details` is null or missing and there is no
\* `body` to fall back on.
NoDetails(json) ==
    /\ json.t = "obj"
    /\ Get(json, "details") \in {Null, Undef}
    /\ Get(json, "body") = Undef

\* Every fixed field of the panel shows the placeholder and nothing else is
\* listed.
AllDashes(panel) ==
    /\ panel.t = "view"
    /\ panel.soilType = Dash /\ panel.pHRange = Dash /\ panel.rainReq = Dash
    /\ panel.tempRange = Dash /\ panel.humidityRange = Dash
    /\ panel.additional = <<>>

\* C13 as claimed: for a response without details the panel shows every fixed
\* field as the placeholder and no additional entries.
C13_NullDetailsAllDashes ==
    [][\A h \in BagToSet(submits), outcome \in RecOutcomes :
          (RecSettles(h, outcome) /\ outcome.kind = "http"
             /\ NoDetails(Awaited(outcome).val)) =>
              AllDashes(detailsPanel')]_vars

\* C13 as amended: for a response without details the panel is emptied, so it
\* shows no fixed field and no additional entry; the view with every fixed
\* field as the placeholder and no additional entries is that of details
\* that are an object without keys.
C13_NullDetailsEmptyPanel ==
    [][\A h \in BagToSet(submits), outcome \in RecOutcomes :
          (RecSettles(h, outcome) /\ outcome.kind = "http") =>
              LET json == Awaited(outcome).val IN
              /\ NoDetails(json) => detailsPanel' = PanelEmpty
              /\ (json.t = "obj" /\ Get(json, "details") = EmptyObj) =>
                    (AllDashes(detailsPanel') /\ detailsPanel'.nutrients = <<>>)]_vars

\* A response whose details are null has emptied the panel.
C13_Witness ==
    /\ ev.op = "submitResume"
    /\ cropName = Str("Maize")
    /\ detailsPanel = PanelEmpty

\* The value of the first alias of the list that is present, non-null and
\* non-empty in details; the placeholder when there is none.
RECURSIVE FirstResolved(_, _)
FirstResolved(details, aliases) ==
    IF aliases = <<>> THEN Dash
    ELSE IF Get(details, Head(aliases)) \notin {Undef, Null, Str("")}
         THEN Get(details, Head(aliases))
         ELSE FirstResolved(details, Tail(aliases))

\* C14: when the details of a response are an object, each fixed field of
\* the panel shows the value of the first alias of its list that is present,
\* non-null and non-empty in details, and the placeholder exactly when there
\* is no such alias.
C14_FirstResolvingAlias ==
    [][\A h \in BagToSet(submits), outcome \in RecOutcomes :
          (RecSettles(h, outcome) /\ outcome.kind = "http"
             /\ Awaited(outcome).val.t = "obj"
             /\ Get(Awaited(outcome).val, "details").t = "obj") =>
              LET details == Get(Awaited(outcome).val, "details") IN
              /\ detailsPanel'.t = "view"
              /\ detailsPanel'.soilType = FirstResolved(details, SoilAliases)
              /\ detailsPanel'.pHRange = FirstResolved(details, PHAliases)
              /\ detailsPanel'.rainReq = FirstResolved(details, RainAliases)
              /\ detailsPanel'.tempRange = FirstResolved(details, TempAliases)
              /\ detailsPanel'.humidityRange = FirstResolved(details, HumidityAliases)]_vars

NonEmptyArray(v) == v.t = "arr" /\ v.items # <<>>

\* C15: after a rendering the tips list is the array under growing_tips when
\* that is a non-empty array, else the array under growingTips when that is
\* one, and the four fallback tips only when neither is; whatever the list
\* held before is gone.
C15_TipsOfTheResponse ==
    [][\A h \in BagToSet(submits), outcome \in RecOutcomes :
          (RecSettles(h, outcome) /\ outcome.kind = "http" /\ ~Failed) =>
              LET json == Awaited(outcome).val IN
              growingTips' =
                  IF NonEmptyArray(Get(json, "growing_tips"))
                  THEN Get(json, "growing_tips").items
                  ELSE IF NonEmptyArray(Get(json, "growingTips"))
                  THEN Get(json, "growingTips").items
                  ELSE fallbackTips(json)]_vars

\* C16: lastResult is written only by the continuation of a submit handler,
\* with the data that handler sent and the value its own request was
\* answered with, however many other handlers are waiting; and the payload
\* saveToHistory sends takes its input and its result from the one
\* lastResult of the moment of the click.
C16_InputAndResultOfOneSubmit ==
    [][/\ \A h \in BagToSet(submits), outcome \in FewRecOutcomes :
             RecSettles(h, outcome) =>
                 \/ lastResult' = lastResult
                 \/ /\ lastResult'.input = h.data
                    /\ lastResult'.result = Awaited(outcome).val
       /\ (\A h \in BagToSet(submits), outcome \in FewRecOutcomes :
              ~RecSettles(h, outcome)) => lastResult' = lastResult
       /\ (SaveClick /\ ev'.histRequests = 1) =>
             /\ save'.payload.input = lastResult.input
             /\ save'.payload.recommendation = Get(lastResult.result, "recommendation")
             /\ save'.payload.explanation = Get(lastResult.result, "explanation")]_vars

\* A result is being saved while a submit with other data is still waiting
\* for its answer.
C16_Witness ==
    /\ lastResult # Null
    /\ save.st = "fetch"
    /\ save.payload.input = lastResult.input
    /\ save.payload.recommendation = Str("Rice")
    /\ \E h \in BagToSet(submits) : h.data # lastResult.input

\* C17: every request a submit has sent carries, for each number input, a
\* number inside the closed range of its rule; a form with an empty or
\* non-numeric number input sends none.
C17_RequestsCarryNumbersInRange ==
    \A h \in BagToSet(submits) : \A f \in Fields :
        /\ h.data[f].t = "num"
        /\ h.data[f].n >= VALIDATION_RULES[f].min
        /\ h.data[f].n <= VALIDATION_RULES[f].max

\* The keys the panel probes for a fixed field or for the nutrient map.
ProbedKeys ==
    Range(SoilAliases) \cup Range(PHAliases) \cup Range(RainAliases)
    \cup Range(TempAliases) \cup Range(HumidityAliases) \cup Range(NutrientAliases)

\* How many entries of the additional bucket carry the key k.
TimesListed(additional, k) ==
    Cardinality({i \in DOMAIN additional : additional[i][1] = k})

\* C18: when the details of a response are an object, no key probed for a
\* fixed field or for the nutrient map is listed among the additional
\* entries, and every other key of details whose value is not null and not
\* empty is listed there once.
C18_NoKeyShownTwice ==
    [][\A h \in BagToSet(submits), outcome \in RecOutcomes :
          (RecSettles(h, outcome) /\ outcome.kind = "http"
             /\ Awaited(outcome).val.t = "obj"
             /\ Get(Awaited(outcome).val, "details").t = "obj") =>
              LET details == Get(Awaited(outcome).val, "details") IN
              /\ detailsPanel'.t = "view"
              /\ \A k \in Range(details.keys) :
                    TimesListed(detailsPanel'.additional, k) =
                        IF k \notin ProbedKeys /\ details.v[k] \notin {Null, Str("")}
                        THEN 1 ELSE 0]_vars

====
